---- MODULE Spec2Model ----
(***************************************************************************)
(* Voice-input subsystem of chatmaga: the useVoiceRecording orchestrator   *)
(* (src/unnamed/part_000) on top of the useWebSpeech adapter               *)
(* (src/chatmaga-ai-main/src/hooks/useWebSpeech.ts).                       *)
(*                                                                         *)
(* React state is modelled as plain variables updated by the handler that  *)
(* calls the setter.  A callback created by useCallback closes over the    *)
(* values of the render it was created in: a call of stopRecording reads   *)
(* isRecording and webSpeech as they are when the call is made, and keeps  *)
(* that snapshot of webSpeech across its await.  Refs (mediaRecorder,      *)
(* audioChunks, recognition) are read live.                                *)
(*                                                                         *)
(* A text is a sequence of characters; a JavaScript null string result is  *)
(* nullResult, a null error is the value null.                             *)
(***************************************************************************)
EXTENDS Naturals, Sequences, FiniteSets, TLC

\* ---------------------------------------------------------------- bounds
MaxStarts == 2
MaxStops == 2
MaxChunks == 2

\* ----------------------------------------------------------------- texts
\* the texts the gateway delivers: empty, whitespace only, and a word padded
\* with whitespace on both sides
Texts == {<<>>, <<" ">>, <<" ", "a", " ">>}

null == "null"
nullResult == <<"null">>

RECURSIVE trimStart(_)
trimStart(s) ==
  IF s = <<>> THEN s
  ELSE IF Head(s) = " " THEN trimStart(Tail(s)) ELSE s

RECURSIVE trimEnd(_)
trimEnd(s) ==
  IF s = <<>> THEN s
  ELSE IF s[Len(s)] = " " THEN trimEnd(SubSeq(s, 1, Len(s) - 1)) ELSE s

\* String.prototype.trim
trim(s) == trimEnd(trimStart(s))

\* engine error codes delivered in event.error
ErrorCodes == {"no-speech"}

\* result[0].confidence as delivered by the engine: 1, or absent (undefined,
\* written as a number outside the range of a confidence)
undefined == 2

\* result[0] of a recognition event: the hypotheses the engine delivers
Hypotheses ==
  {[transcript |-> <<>>, confidence |-> undefined],
   [transcript |-> <<" ">>, confidence |-> 1],
   [transcript |-> <<" ", "a", " ">>, confidence |-> 1],
   [transcript |-> <<" ", "a", " ">>, confidence |-> undefined]}

\* result[0].confidence || 0
confidenceOr0(c) == IF c = undefined \/ c = 0 THEN 0 ELSE c

\* ----------------------------------------------------------------- state
VARIABLES
  isSupported,    \* useWebSpeech: capability probe, fixed for the lifetime
  webSpeech,      \* useWebSpeech state: isListening, transcript, error, confidence
  recognition,    \* useWebSpeech ref: current engine (0 = null)
  engines,        \* every SpeechRecognition instance created so far
  isRecording,    \* useVoiceRecording state
  isProcessing,   \* useVoiceRecording state
  error,          \* useVoiceRecording state
  mediaRecorder,  \* useVoiceRecording ref: current recorder (0 = null)
  audioChunks,    \* useVoiceRecording ref: chunk buffer
  recorders,      \* every capture stream acquired so far, with its recorder
  starts,         \* startRecording calls: their position
  calls           \* stopRecording calls: their position and promise

vars == <<isSupported, webSpeech, recognition, engines, isRecording,
          isProcessing, error, mediaRecorder, audioChunks, recorders,
          starts, calls>>

Init ==
  /\ isSupported \in BOOLEAN
  /\ webSpeech = [isListening |-> FALSE, transcript |-> <<>>,
                  error |-> null, confidence |-> 0]
  /\ recognition = 0
  /\ engines = <<>>
  /\ isRecording = FALSE
  /\ isProcessing = FALSE
  /\ error = null
  /\ mediaRecorder = 0
  /\ audioChunks = <<>>
  /\ recorders = <<>>
  /\ starts = <<>>
  /\ calls = <<>>

\* what the hook returns
ObservedIsRecording == isRecording \/ webSpeech.isListening
ObservedError == IF error # null THEN error ELSE webSpeech.error

\* ------------------------------------------------- useWebSpeech adapter
\* Outcome of `new SpeechRecognition()` followed by `start()`.
EngineStartOutcomes == {"ok", "ctor-throws", "start-throws"}

\* a SpeechRecognition instance: where it is in its life and, while it is the
\* current engine, the trimmed text of the final result it has delivered
\* (nullResult while it has delivered none)
newEngine(st) == [state |-> st, final |-> nullResult]

\* the engines once recognition.current is replaced
replaced(engs) == [i \in 1..Len(engs) |-> [engs[i] EXCEPT !.final = nullResult]]

\* startListening marking the adapter as listening at once
startListeningAtOnce(outcome) ==
  LET reset == [webSpeech EXCEPT !.error = null, !.transcript = <<>>,
                                 !.isListening = TRUE]
      failed == [reset EXCEPT !.error = "Failed to start speech recognition",
                              !.isListening = FALSE]
  IN CASE outcome = "ok" ->
            <<reset, Len(engines) + 1,
              Append(replaced(engines), newEngine("starting"))>>
       [] outcome = "start-throws" ->
            <<failed, Len(engines) + 1,
              Append(replaced(engines), newEngine("ended"))>>
       [] outcome = "ctor-throws" ->
            <<failed, recognition, engines>>

\* startListening on a supported platform, as a function of the outcome:
\* the new adapter state <<webSpeech, recognition, engines>>.
startListening(outcome) ==
  LET reset == [webSpeech EXCEPT !.error = null, !.transcript = <<>>]
      failed == [reset EXCEPT !.error = "Failed to start speech recognition",
                              !.isListening = FALSE]
  IN CASE outcome = "ok" ->
            <<reset, Len(engines) + 1,
              Append(replaced(engines), newEngine("starting"))>>
       [] outcome = "start-throws" ->
            <<failed, Len(engines) + 1,
              Append(replaced(engines), newEngine("ended"))>>
       [] outcome = "ctor-throws" ->
            <<failed, recognition, engines>>

\* stopListening: recognition.current.stop() when there is an engine.
\* stop() on an engine that is listening makes it return what it has and end;
\* on any other engine it has no effect.
stopListening ==
  IF recognition # 0 /\ engines[recognition].state = "listening"
  THEN [engines EXCEPT ![recognition].state = "stopping"]
  ELSE engines

\* recognition.onstart
OnStart(e) ==
  /\ e \in DOMAIN engines
  /\ engines[e].state = "starting"
  /\ engines' = [engines EXCEPT ![e].state = "listening"]
  /\ webSpeech' = [webSpeech EXCEPT !.isListening = TRUE]
  /\ UNCHANGED <<isSupported, recognition, isRecording, isProcessing, error,
                 mediaRecorder, audioChunks, recorders, starts, calls>>

\* recognition.onresult appending to the transcript it holds
OnResultAccumulating(e, result0, isFinal) ==
  /\ e \in DOMAIN engines
  /\ engines[e].state \in {"listening", "stopping"}
  /\ webSpeech' = [webSpeech EXCEPT
                     !.transcript = @ \o result0.transcript,
                     !.confidence = confidenceOr0(result0.confidence),
                     !.isListening = IF isFinal THEN FALSE ELSE @]
  /\ engines' = IF isFinal
                THEN [engines EXCEPT
                        ![e].state = "closing",
                        ![e].final = IF e = recognition THEN trim(result0.transcript)
                                     ELSE @]
                ELSE engines
  /\ UNCHANGED <<isSupported, recognition, isRecording, isProcessing, error,
                 mediaRecorder, audioChunks, recorders, starts, calls>>

\* recognition.onresult: the last result of the event, final or interim
OnResult(e, result0, isFinal) ==
  /\ e \in DOMAIN engines
  /\ engines[e].state \in {"listening", "stopping"}
  /\ webSpeech' = [webSpeech EXCEPT
                     !.transcript = result0.transcript,
                     !.confidence = confidenceOr0(result0.confidence),
                     !.isListening = IF isFinal THEN FALSE ELSE @]
  /\ engines' = IF isFinal
                THEN [engines EXCEPT
                        ![e].state = "closing",
                        ![e].final = IF e = recognition THEN trim(result0.transcript)
                                     ELSE @]
                ELSE engines
  /\ UNCHANGED <<isSupported, recognition, isRecording, isProcessing, error,
                 mediaRecorder, audioChunks, recorders, starts, calls>>

\* recognition.onerror
OnError(e, code) ==
  /\ e \in DOMAIN engines
  /\ engines[e].state \in {"starting", "listening", "stopping"}
  /\ webSpeech' = [webSpeech EXCEPT
                     !.error = "Speech recognition error: " \o code,
                     !.isListening = FALSE]
  /\ engines' = [engines EXCEPT ![e].state = "closing"]
  /\ UNCHANGED <<isSupported, recognition, isRecording, isProcessing, error,
                 mediaRecorder, audioChunks, recorders, starts, calls>>

\* recognition.onend without setIsListening(false)
OnEndStillListening(e) ==
  /\ e \in DOMAIN engines
  /\ engines[e].state \in {"listening", "stopping", "closing"}
  /\ engines' = [engines EXCEPT ![e].state = "ended"]
  /\ UNCHANGED <<isSupported, webSpeech, recognition, isRecording,
                 isProcessing, error, mediaRecorder, audioChunks, recorders,
                 starts, calls>>

\* recognition.onend
OnEnd(e) ==
  /\ e \in DOMAIN engines
  /\ engines[e].state \in {"listening", "stopping", "closing"}
  /\ webSpeech' = [webSpeech EXCEPT !.isListening = FALSE]
  /\ engines' = [engines EXCEPT ![e].state = "ended"]
  /\ UNCHANGED <<isSupported, recognition, isRecording, isProcessing, error,
                 mediaRecorder, audioChunks, recorders, starts, calls>>

\* ------------------------------------------- useVoiceRecording: start
\* resolve(v) of a stopRecording promise: settles it once
resolve(c, v) ==
  IF c.promise = "pending" THEN [c EXCEPT !.promise = "resolved", !.result = v]
  ELSE c

\* startRecording when webSpeech.isSupported: delegates to the adapter,
\* marks the session active and returns
StartRecordingWebSpeech(outcome) ==
  /\ Len(starts) < MaxStarts
  /\ isSupported
  /\ error' = null
  /\ LET r == startListening(outcome)
     IN /\ webSpeech' = r[1]
        /\ recognition' = r[2]
        /\ engines' = r[3]
  /\ isRecording' = TRUE
  /\ starts' = Append(starts, "resolved")
  /\ UNCHANGED <<isSupported, isProcessing, mediaRecorder, audioChunks,
                 recorders, calls>>

\* the device branch taken whatever the capability probe says
StartRecordingDeviceAnyway ==
  /\ Len(starts) < MaxStarts
  /\ error' = null
  /\ starts' = Append(starts, "getUserMedia")
  /\ UNCHANGED <<isSupported, webSpeech, recognition, engines, isRecording,
                 isProcessing, mediaRecorder, audioChunks, recorders, calls>>

\* startRecording otherwise: clears the error and awaits getUserMedia
StartRecordingDevice ==
  /\ Len(starts) < MaxStarts
  /\ ~isSupported
  /\ error' = null
  /\ starts' = Append(starts, "getUserMedia")
  /\ UNCHANGED <<isSupported, webSpeech, recognition, engines, isRecording,
                 isProcessing, mediaRecorder, audioChunks, recorders, calls>>

\* the catch block with the session already marked active
GetUserMediaRejectedWhileRecording(s) ==
  /\ s \in DOMAIN starts
  /\ starts[s] = "getUserMedia"
  /\ error' = "Failed to start recording. Please check microphone permissions."
  /\ isRecording' = TRUE
  /\ starts' = [starts EXCEPT ![s] = "resolved"]
  /\ UNCHANGED <<isSupported, webSpeech, recognition, engines,
                 isProcessing, mediaRecorder, audioChunks, recorders, calls>>

\* getUserMedia rejects: the catch block
GetUserMediaRejected(s) ==
  /\ s \in DOMAIN starts
  /\ starts[s] = "getUserMedia"
  /\ error' = "Failed to start recording. Please check microphone permissions."
  /\ starts' = [starts EXCEPT ![s] = "resolved"]
  /\ UNCHANGED <<isSupported, webSpeech, recognition, engines, isRecording,
                 isProcessing, mediaRecorder, audioChunks, recorders, calls>>

\* Outcome of `new MediaRecorder(stream)` followed by `start(1000)`.
RecorderStartOutcomes == {"ok", "ctor-throws", "start-throws"}

\* getUserMedia({audio: ...}) resolves with a stream of one audio track
AudioTracks == 1

\* an acquired stream and its recorder: the recorder's state and onstop
\* handler (the stopRecording call that installed it, 0 = none), the number
\* of non-empty chunks it has emitted, and the stop() calls its tracks have
\* received
newStream(st) == [state |-> st, trackStops |-> 0, emitted |-> 0, onstop |-> 0]

RECURSIVE emittedUpTo(_)
emittedUpTo(n) == IF n = 0 THEN 0 ELSE recorders[n].emitted + emittedUpTo(n - 1)

\* getUserMedia resolves with a stream: the rest of the try block
GetUserMediaResolved(s, outcome) ==
  /\ s \in DOMAIN starts
  /\ starts[s] = "getUserMedia"
  /\ starts' = [starts EXCEPT ![s] = "resolved"]
  /\ CASE outcome = "ok" ->
            /\ recorders' = Append(recorders, newStream("recording"))
            /\ mediaRecorder' = Len(recorders) + 1
            /\ audioChunks' = <<>>
            /\ isRecording' = TRUE
            /\ UNCHANGED error
       [] outcome = "start-throws" ->
            /\ recorders' = Append(recorders, newStream("inactive"))
            /\ mediaRecorder' = Len(recorders) + 1
            /\ audioChunks' = <<>>
            /\ error' = "Failed to start recording. Please check microphone permissions."
            /\ UNCHANGED isRecording
       [] outcome = "ctor-throws" ->
            /\ recorders' = Append(recorders, newStream("norecorder"))
            /\ error' = "Failed to start recording. Please check microphone permissions."
            /\ UNCHANGED <<mediaRecorder, audioChunks, isRecording>>
  /\ UNCHANGED <<isSupported, webSpeech, recognition, engines, isProcessing,
                 calls>>

\* mediaRecorder.ondataavailable: a chunk of the given size from recorder r,
\* on the timeslice while recording or as the last data after stop(); an
\* empty chunk is dropped, any other is pushed on the current buffer
OnDataAvailable(r, size) ==
  /\ r \in DOMAIN recorders
  /\ recorders[r].state \in {"recording", "stopping"}
  /\ IF size > 0
     THEN /\ emittedUpTo(Len(recorders)) < MaxChunks
          /\ recorders' = [recorders EXCEPT ![r].emitted = @ + 1]
          /\ audioChunks' =
               Append(audioChunks, [rec |-> r, seq |-> recorders[r].emitted + 1])
     ELSE UNCHANGED <<recorders, audioChunks>>
  /\ UNCHANGED <<isSupported, webSpeech, recognition, engines, isRecording,
                 isProcessing, error, mediaRecorder, starts, calls>>

\* -------------------------------------------- useVoiceRecording: stop
\* a stopRecording call as it is made: the promise, the closure's view of
\* webSpeech, how far its continuation has run, what the call signalled
\* (the engine, the recorder or nothing) and the recorder its stop() stopped;
\* while it waits, the final result that had been delivered when it was made
\* and whether the session had ended in silence
noSnap == [transcript |-> <<>>, error |-> null]

newCall(stage) ==
  [stage |-> stage, promise |-> "pending", result |-> nullResult,
   snap |-> noSnap, blob |-> <<>>, signalled |-> "none", stopped |-> 0,
   heard |-> nullResult, silent |-> FALSE]

\* the trimmed final result the current engine has delivered, when that is
\* not empty; nullResult otherwise
finalHeard ==
  IF recognition # 0 /\ engines[recognition].final # <<>>
  THEN engines[recognition].final
  ELSE nullResult

\* the current engine has ended without a final result and without an error,
\* leaving an empty or whitespace-only transcript
silentEnd ==
  /\ recognition # 0
  /\ engines[recognition].state = "ended"
  /\ engines[recognition].final = nullResult
  /\ webSpeech.error = null
  /\ trim(webSpeech.transcript) = <<>>

\* the fields of webSpeech the continuation of stopRecording reads
snapshot == [transcript |-> webSpeech.transcript, error |-> webSpeech.error]

\* the branches without the isRecording test
stopRecordingBranchUnguarded ==
  IF webSpeech.isListening THEN "webSpeech"
  ELSE IF mediaRecorder = 0 THEN "noRecorder"
  ELSE "mediaRecorder"

\* the branch stopRecording takes, from the values its closure holds
stopRecordingBranch ==
  IF ~isRecording THEN "notRecording"
  ELSE IF webSpeech.isListening THEN "webSpeech"
  ELSE IF mediaRecorder = 0 THEN "noRecorder"
  ELSE "mediaRecorder"

\* the early returns of stopRecording with setIsRecording(false)
StopRecordingNullClearing ==
  /\ Len(calls) < MaxStops
  /\ stopRecordingBranch \in {"notRecording", "noRecorder"}
  /\ isRecording' = FALSE
  /\ calls' = Append(calls, resolve(newCall("done"), nullResult))
  /\ UNCHANGED <<isSupported, webSpeech, recognition, engines,
                 isProcessing, error, mediaRecorder, audioChunks, recorders,
                 starts>>

\* stopRecording returning null at once: not recording, or no recorder
StopRecordingNull ==
  /\ Len(calls) < MaxStops
  /\ stopRecordingBranch \in {"notRecording", "noRecorder"}
  /\ calls' = Append(calls, resolve(newCall("done"), nullResult))
  /\ UNCHANGED <<isSupported, webSpeech, recognition, engines, isRecording,
                 isProcessing, error, mediaRecorder, audioChunks, recorders,
                 starts>>

\* stopRecording on a listening adapter, up to the await of the settle delay
StopRecordingWebSpeech ==
  /\ Len(calls) < MaxStops
  /\ stopRecordingBranch = "webSpeech"
  /\ engines' = stopListening
  /\ isRecording' = FALSE
  /\ calls' = Append(calls, [newCall("settle") EXCEPT !.signalled = "engine", !.snap = snapshot,
                                  !.heard = finalHeard, !.silent = silentEnd])
  /\ UNCHANGED <<isSupported, webSpeech, recognition, isProcessing, error,
                 mediaRecorder, audioChunks, recorders, starts>>

\* the adapter error tested before the transcript
settleOutcomeErrorFirst(snap) ==
  IF snap.error # null
  THEN <<nullResult, "Web Speech API error: " \o snap.error>>
  ELSE IF snap.transcript # <<>> /\ trim(snap.transcript) # <<>>
  THEN <<trim(snap.transcript), error>>
  ELSE <<nullResult, "No speech detected. Please try again.">>

\* what the in-browser branch does after the settle delay, from the
\* snapshot of webSpeech its closure holds: <<result, error to set>>
settleOutcome(snap) ==
  IF snap.transcript # <<>> /\ trim(snap.transcript) # <<>>
  THEN <<trim(snap.transcript), error>>
  ELSE IF snap.error # null
  THEN <<nullResult, "Web Speech API error: " \o snap.error>>
  ELSE <<nullResult, "No speech detected. Please try again.">>

\* the settle delay elapses
SettleDelayElapsed(c) ==
  /\ c \in DOMAIN calls
  /\ calls[c].stage = "settle"
  /\ LET out == settleOutcome(calls[c].snap)
     IN /\ error' = out[2]
        /\ calls' = [calls EXCEPT
                       ![c] = [resolve(@, out[1]) EXCEPT !.stage = "done", !.snap = noSnap,
                                                  !.heard = nullResult,
                                                  !.silent = FALSE]]
  /\ UNCHANGED <<isSupported, webSpeech, recognition, engines, isRecording,
                 isProcessing, mediaRecorder, audioChunks, recorders, starts>>

\* Outcome of mediaRecorder.current.stop(): it stops a recording recorder;
\* on a recorder that is not recording it throws InvalidStateError or does
\* nothing, depending on the platform.
RecorderStopOutcomes == {"stops", "throws", "ignored"}

\* stopRecording on the device path: installs onstop and calls stop()
StopRecordingDevice(outcome) ==
  /\ Len(calls) < MaxStops
  /\ stopRecordingBranch = "mediaRecorder"
  /\ (outcome = "stops") = (recorders[mediaRecorder].state = "recording")
  /\ recorders' = [recorders EXCEPT
                     ![mediaRecorder].onstop = Len(calls) + 1,
                     ![mediaRecorder].state = IF outcome = "stops" THEN "stopping" ELSE @]
  /\ calls' = Append(calls,
        [newCall("waitStop") EXCEPT
           !.signalled = "recorder",
           !.stopped = IF outcome = "stops" THEN mediaRecorder ELSE 0,
           !.promise = IF outcome = "throws" THEN "rejected" ELSE "pending"])
  /\ UNCHANGED <<isSupported, webSpeech, recognition, engines, isRecording,
                 isProcessing, error, mediaRecorder, audioChunks, starts>>

\* tracks.forEach(track => track.stop()) on every stream acquired so far
stopAllTracks(recs, t) ==
  [r \in 1..Len(recs) |->
     [recs[r] EXCEPT !.trackStops = @ + AudioTracks,
                     !.state = IF @ = "recording" THEN "stopping" ELSE @]]

\* tracks.forEach(track => track.stop()) on the stream of recorder t: every
\* track gets one more stop() call; a recorder whose tracks have all ended
\* stops recording
stopTracks(recs, t) ==
  [recs EXCEPT ![t].trackStops = @ + AudioTracks,
               ![t].state = IF @ = "recording" THEN "stopping" ELSE @]

\* Outcome of `new Blob(...)` and `reader.readAsDataURL(...)` in onstop
BlobOutcomes == {"ok", "throws"}

\* the recorder's stop event: the onstop handler stopRecording installed
OnStop(r, outcome) ==
  /\ r \in DOMAIN recorders
  /\ recorders[r].state = "stopping"
  /\ LET stopped == [recorders EXCEPT ![r].state = "inactive"]
         c == recorders[r].onstop
     IN IF c = 0
        THEN /\ outcome = "ok"
             /\ recorders' = stopped
             /\ UNCHANGED <<isRecording, isProcessing, error, calls>>
        ELSE /\ isRecording' = FALSE
             /\ IF outcome = "ok"
                THEN /\ isProcessing' = TRUE
                     /\ calls' = [calls EXCEPT ![c].stage = "reading",
                                               ![c].blob = audioChunks]
                     /\ UNCHANGED error
                ELSE /\ isProcessing' = FALSE
                     /\ error' = "Failed to process recording."
                     /\ calls' = [calls EXCEPT
                                    ![c] = [resolve(@, nullResult) EXCEPT !.stage = "done"]]
             /\ recorders' = IF mediaRecorder = 0 THEN stopped
                             ELSE stopTracks(stopped, mediaRecorder)
  /\ UNCHANGED <<isSupported, webSpeech, recognition, engines, mediaRecorder,
                 audioChunks, starts>>

\* the catch block without setIsProcessing(false)
processingFailedStaysBusy(c) ==
  /\ error' = "API quota exceeded. Please try the built-in voice recognition."
  /\ UNCHANGED isProcessing
  /\ calls' = [calls EXCEPT
                 ![c] = [resolve(@, nullResult) EXCEPT !.stage = "done", !.blob = <<>>]]

\* the catch block without resolve(null)
processingFailedUnresolved(c) ==
  /\ error' = "API quota exceeded. Please try the built-in voice recognition."
  /\ isProcessing' = FALSE
  /\ calls' = [calls EXCEPT ![c] = [@ EXCEPT !.stage = "done", !.blob = <<>>]]

\* the catch block of reader.onloadend
processingFailed(c) ==
  /\ error' = "API quota exceeded. Please try the built-in voice recognition."
  /\ isProcessing' = FALSE
  /\ calls' = [calls EXCEPT
                 ![c] = [resolve(@, nullResult) EXCEPT !.stage = "done", !.blob = <<>>]]

\* reader.onloadend: with a data URL it invokes the gateway and awaits it;
\* with reader.result null the split throws into the catch block
OnLoadEnd(c, hasResult) ==
  /\ c \in DOMAIN calls
  /\ calls[c].stage = "reading"
  /\ IF hasResult
     THEN /\ calls' = [calls EXCEPT ![c].stage = "gateway"]
          /\ UNCHANGED <<error, isProcessing>>
     ELSE processingFailed(c)
  /\ UNCHANGED <<isSupported, webSpeech, recognition, engines, isRecording,
                 mediaRecorder, audioChunks, recorders, starts>>

\* what supabase.functions.invoke('voice-to-text') comes back with: it
\* rejects, or resolves with {data, error}
GatewayResponses ==
  {[kind |-> k, text |-> <<>>] : k \in {"rejects", "error", "nodata"}}
    \cup {[kind |-> "data", text |-> t] : t \in Texts}

\* data.text trimmed before the test
textTrimmedOrNull(t) == IF trim(t) = <<>> THEN nullResult ELSE trim(t)

\* data.text || null
textOrNull(t) == IF t = <<>> THEN nullResult ELSE t

\* the gateway call settles: the rest of reader.onloadend
GatewayResolved(c, resp) ==
  /\ c \in DOMAIN calls
  /\ calls[c].stage = "gateway"
  /\ IF resp.kind = "data"
     THEN /\ isProcessing' = FALSE
          /\ calls' = [calls EXCEPT
                         ![c] = [resolve(@, textOrNull(resp.text)) EXCEPT
                                   !.stage = "done", !.blob = <<>>]]
          /\ UNCHANGED error
     ELSE processingFailed(c)
  /\ UNCHANGED <<isSupported, webSpeech, recognition, engines, isRecording,
                 mediaRecorder, audioChunks, recorders, starts>>

\* ---------------------------------------------------------- specification
Next ==
  \/ \E o \in EngineStartOutcomes : StartRecordingWebSpeech(o)
  \/ StartRecordingDevice
  \/ \E s \in 1..MaxStarts : GetUserMediaRejected(s)
  \/ \E s \in 1..MaxStarts, o \in RecorderStartOutcomes :
        GetUserMediaResolved(s, o)
  \/ \E e \in 1..MaxStarts : OnStart(e)
  \/ \E e \in 1..MaxStarts, h \in Hypotheses, f \in BOOLEAN :
        OnResult(e, h, f)
  \/ \E e \in 1..MaxStarts, code \in ErrorCodes : OnError(e, code)
  \/ \E e \in 1..MaxStarts : OnEnd(e)
  \/ StopRecordingNull
  \/ StopRecordingWebSpeech
  \/ \E c \in 1..MaxStops : SettleDelayElapsed(c)
  \/ \E o \in RecorderStopOutcomes : StopRecordingDevice(o)
  \/ \E r \in 1..MaxStarts, size \in 0..1 : OnDataAvailable(r, size)
  \/ \E r \in 1..MaxStarts, o \in BlobOutcomes : OnStop(r, o)
  \/ \E c \in 1..MaxStops, ok \in BOOLEAN : OnLoadEnd(c, ok)
  \/ \E c \in 1..MaxStops, resp \in GatewayResponses : GatewayResolved(c, resp)

Spec == Init /\ [][Next]_vars

\* ------------------------------------------------------------ properties
\* a capture session: an engine that has been started and has not delivered
\* its final result, error or end; a recorder that has been started and whose
\* stop event has not fired
EngineActive(e) == engines[e].state \in {"starting", "listening", "stopping"}
RecorderActive(r) == recorders[r].state \in {"recording", "stopping"}
ActiveSessions ==
  Cardinality({e \in 1..Len(engines) : EngineActive(e)})
    + Cardinality({r \in 1..Len(recorders) : RecorderActive(r)})
NoSessionActive == ActiveSessions = 0

\* this step makes a stopRecording call; the call is calls'[Len(calls')]
StopCalled == Len(calls') = Len(calls) + 1

\* this step resolves the promise of stopRecording call c
Resolves(c) ==
  /\ calls'[c].promise = "resolved"
  /\ c <= Len(calls) => calls[c].promise = "pending"

\* C1: on the in-browser path, a stopRecording call made after the engine
\* delivered a final result with non-empty trimmed text resolves with exactly
\* that trimmed text.
C1_FinalResultIsReturned ==
  [][\A c \in 1..Len(calls') :
       LET h == IF c > Len(calls) THEN finalHeard ELSE calls[c].heard
       IN (isSupported /\ Resolves(c) /\ h # nullResult) => calls'[c].result = h]_vars

\* C2: on the in-browser path, a stopRecording call made after the session
\* ended with an empty or whitespace-only transcript, no final result and no
\* engine error resolves null and sets the 'No speech detected' error.
C2_SilentEndReportsNoSpeech ==
  [][\A c \in 1..Len(calls') :
       LET s == IF c > Len(calls) THEN silentEnd ELSE calls[c].silent
       IN (isSupported /\ Resolves(c) /\ s) =>
            /\ calls'[c].result = nullResult
            /\ error' = "No speech detected. Please try again."]_vars

\* C3: once a failure has been reported and no capture is in progress, a
\* stopRecording call brings the observed isRecording back to false (and
\* isProcessing is false).
C3_StopClearsBusyAfterFailure ==
  [][(StopCalled /\ ObservedError # null /\ NoSessionActive
        /\ \A s \in 1..Len(starts) : starts[s] = "resolved"
        /\ \A c \in 1..Len(calls) : calls[c].stage = "done")
       => (~ObservedIsRecording' /\ ~isProcessing')]_vars

\* C4: the observed isRecording is true iff exactly one capture session is
\* active.
C4_RecordingIffOneSession == ObservedIsRecording <=> (ActiveSessions = 1)

\* C5: once a stopRecording call that stopped a recorder has resolved, every
\* track of that recorder's stream has been stopped exactly once, and no
\* stream whose recorder is not recording is left with unstopped tracks.
C5_TracksStoppedOnce ==
  \A c \in 1..Len(calls) :
    (calls[c].promise = "resolved" /\ calls[c].stopped # 0) =>
      /\ recorders[calls[c].stopped].trackStops = AudioTracks
      /\ \A r \in 1..Len(recorders) :
           ~RecorderActive(r) => recorders[r].trackStops = AudioTracks

\* C6: isProcessing is true only on the device path, between a recorder's
\* stop event and the end of the transcription of that recording.
C6_ProcessingOnlyWhileTranscribing ==
  isProcessing =>
    /\ ~isSupported
    /\ \E c \in 1..Len(calls) :
         /\ calls[c].stage \in {"reading", "gateway"}
         /\ calls[c].signalled = "recorder"
         /\ \E r \in 1..Len(recorders) :
              recorders[r].onstop = c /\ recorders[r].state = "inactive"

C6_Witness ==
  /\ isProcessing
  /\ \E c \in 1..Len(calls) : calls[c].stage = "gateway"
  /\ \E c \in 1..Len(calls) : calls[c].stage = "done" /\ calls[c].signalled = "recorder"

\* C7: when the capability is supported no startRecording acquires a capture
\* device or creates a recorder; every call goes to the adapter and returns.
C7_SupportedNeverCaptures ==
  isSupported =>
    /\ recorders = <<>>
    /\ mediaRecorder = 0
    /\ audioChunks = <<>>
    /\ \A s \in 1..Len(starts) : starts[s] = "resolved"

C7_Witness == isSupported /\ Len(starts) > 1 /\ Len(engines) > 1

\* C8: a stopRecording call made while no session is active resolves null,
\* signals neither the engine nor the recorder, and leaves error,
\* isRecording, isProcessing, the recorder handle and the chunk buffer alone.
C8_StopWithoutSessionIsNoop ==
  [][(StopCalled /\ NoSessionActive) =>
       /\ calls'[Len(calls')].promise = "resolved"
       /\ calls'[Len(calls')].result = nullResult
       /\ calls'[Len(calls')].signalled = "none"
       /\ UNCHANGED <<error, webSpeech, isRecording, isProcessing, mediaRecorder,
                      audioChunks, engines, recorders>>]_vars

C8_Witness ==
  /\ NoSessionActive
  /\ Len(starts) > 0
  /\ Len(calls) > 1
  /\ calls[Len(calls)].signalled = "none"
  /\ calls[Len(calls)].promise = "resolved"
  /\ calls[1].signalled # "none"

\* C9: a stopRecording call made on an active session that resolves null
\* leaves the observed error non-null.
C9_NullResultCarriesError ==
  [][\A c \in 1..Len(calls') :
       LET active == IF c > Len(calls) THEN ~NoSessionActive
                     ELSE calls[c].signalled # "none"
       IN (Resolves(c) /\ active /\ calls'[c].result = nullResult)
            => ObservedError' # null]_vars

\* C10: no startRecording or stopRecording promise is ever rejected.
C10_NeverRejects ==
  /\ \A s \in 1..Len(starts) : starts[s] # "rejected"
  /\ \A c \in 1..Len(calls) : calls[c].promise # "rejected"

\* ------------------------------------------------- C11: failures after stop
\* this step is the blob-assembly failure of the onstop handler of call c
BlobFailed(c) ==
  \E r \in 1..Len(recorders) : recorders[r].onstop = c /\ OnStop(r, "throws")

\* this step is a failure of the reader or of the gateway call of call c
TranscriptionFailed(c) ==
  \/ OnLoadEnd(c, FALSE)
  \/ \E resp \in GatewayResponses : resp.kind # "data" /\ GatewayResolved(c, resp)

\* resolve(null) has been called on the promise of call c: a pending promise
\* is resolved null, a settled one stays as it was
ResolvedNull(c) ==
  /\ calls'[c].promise = IF calls[c].promise = "pending" THEN "resolved"
                         ELSE calls[c].promise
  /\ calls'[c].result = nullResult
  /\ calls'[c].stage = "done"

\* C11 as stated: on the device path, any failure after the recorder stops
\* (blob assembly, base64 encoding, network, or a gateway-reported error)
\* sets the same quota-exceeded error, clears isProcessing and makes
\* stopRecording resolve null.
C11_AnyFailureSetsQuotaError ==
  [][\A c \in 1..Len(calls) :
       (BlobFailed(c) \/ TranscriptionFailed(c)) =>
          /\ error' = "API quota exceeded. Please try the built-in voice recognition."
          /\ ~isProcessing'
          /\ ResolvedNull(c)]_vars

\* C11 amended: a failure of the base64 encoding, of the network or one the
\* gateway reports sets the quota-exceeded error, a failure of the blob
\* assembly sets the 'Failed to process recording.' error; either clears
\* isProcessing and calls resolve(null) on the promise of the call.
C11_FailureSetsItsError ==
  [][\A c \in 1..Len(calls) :
       (Len(calls') = Len(calls) /\ calls'[c] # calls[c]) =>
         /\ TranscriptionFailed(c) =>
              /\ error' = "API quota exceeded. Please try the built-in voice recognition."
              /\ ~isProcessing'
              /\ ResolvedNull(c)
         /\ BlobFailed(c) =>
              /\ error' = "Failed to process recording."
              /\ ~isProcessing'
              /\ ResolvedNull(c)]_vars

C11_Witness ==
  /\ ~isSupported
  /\ error = "Failed to process recording."
  /\ ~isProcessing
  /\ \E c, d \in 1..Len(calls) :
       /\ c < d
       /\ calls[c].stage = "done" /\ calls[c].signalled = "recorder"
       /\ calls[c].promise = "resolved" /\ calls[c].stopped # 0
       /\ calls[d].stage = "done" /\ calls[d].signalled = "recorder"
       /\ calls[d].promise = "resolved" /\ calls[d].stopped # calls[c].stopped
       /\ calls[d].stopped # 0

\* ------------------------------------------- C12: successful transcription
\* this step is the onstop handler of call c assembling the blob and
\* starting the read
BlobRead(c) ==
  \E r \in 1..Len(recorders) : recorders[r].onstop = c /\ OnStop(r, "ok")

\* this step is the gateway answering call c with the text t
GatewayReturned(c, t) == GatewayResolved(c, [kind |-> "data", text |-> t])

\* call c is the only stopRecording call so far that reached a recorder
OnlyDeviceStop(c) ==
  \A d \in 1..Len(calls) : d # c => calls[d].signalled # "recorder"

\* C12: with the capability unsupported, for a stopRecording call that
\* stopped a recording recorder: when the recorder's stop event fires
\* isProcessing goes from false to true, and when the gateway returns a
\* non-empty text the promise resolves with exactly that text, untrimmed,
\* with isProcessing back to false at that point; neither step sets the
\* error.  (The transitions false -> true -> false are those of a call that
\* is the only one to have reached a recorder.)
C12_TextResolvesAfterProcessing ==
  [][\A c \in 1..Len(calls) :
       calls[c].stopped # 0 =>
         /\ BlobRead(c) =>
              /\ isProcessing' /\ error' = error
              /\ OnlyDeviceStop(c) => ~isProcessing
         /\ \A t \in Texts \ {<<>>} :
              GatewayReturned(c, t) =>
                /\ calls'[c].promise = "resolved"
                /\ calls'[c].result = t
                /\ ~isProcessing' /\ error' = error
                /\ OnlyDeviceStop(c) => isProcessing]_vars

C12_Witness ==
  /\ ~isSupported
  /\ ~isProcessing
  /\ error = null
  /\ \E c \in 1..Len(calls) :
       /\ calls[c].stopped # 0
       /\ calls[c].stage = "done"
       /\ calls[c].promise = "resolved"
       /\ calls[c].result = <<" ", "a", " ">>

\* ------------------------------------------------ C13: acquisition failure
\* this step is the catch block of startRecording call s: getUserMedia
\* rejected, or the recorder could not be created or started
AcquisitionDenied(s) == GetUserMediaRejected(s)
RecorderFailed(s) ==
  \E o \in RecorderStartOutcomes \ {"ok"} : GetUserMediaResolved(s, o)

RecordingRecorders(recs) ==
  {r \in 1..Len(recs) : recs[r].state = "recording"}

\* C13: with the capability unsupported, when device acquisition is denied
\* or errors, startRecording sets the start-failure error, leaves
\* isRecording as it was (false when no session was active), starts no
\* recorder and its promise resolves.
C13_DeniedStartReportsError ==
  [][\A s \in 1..Len(starts) :
       /\ AcquisitionDenied(s) =>
            /\ ~isSupported
            /\ error' = "Failed to start recording. Please check microphone permissions."
            /\ isRecording' = isRecording
            /\ ObservedIsRecording' = ObservedIsRecording
            /\ UNCHANGED <<recorders, mediaRecorder, audioChunks>>
            /\ starts'[s] = "resolved"
       /\ RecorderFailed(s) =>
            /\ ~isSupported
            /\ error' = "Failed to start recording. Please check microphone permissions."
            /\ isRecording' = isRecording
            /\ RecordingRecorders(recorders') = RecordingRecorders(recorders)
            /\ starts'[s] = "resolved"]_vars

C13_Witness ==
  /\ ~isSupported
  /\ error = "Failed to start recording. Please check microphone permissions."
  /\ ~ObservedIsRecording
  /\ recorders = <<>>
  /\ mediaRecorder = 0
  /\ Len(starts) > 0
  /\ \A s \in 1..Len(starts) : starts[s] = "resolved"

\* --------------------------------------------------- C14: late final result
\* the current engine has delivered a final result with non-empty trimmed
\* text since call c was made (it had delivered none when the call was made)
LateFinal(c) == calls[c].heard = nullResult /\ finalHeard # nullResult

\* C14: on the in-browser path, a final result the engine delivers after
\* stopRecording has signalled stop and before the settle delay has elapsed
\* is the transcript stopRecording inspects: with non-empty trimmed text,
\* the call resolves with that text.
C14_LateFinalIsInspected ==
  [][\A c \in 1..Len(calls) :
       (SettleDelayElapsed(c) /\ LateFinal(c)) =>
         /\ calls'[c].promise = "resolved"
         /\ calls'[c].result = finalHeard]_vars

\* ------------------------------------------------- C15: resolution policy
\* C15: when stopRecording has taken the in-browser branch, its outcome
\* after the settle delay follows a strict priority over the transcript and
\* the adapter error it inspects: a non-empty trimmed transcript is returned
\* and no error is set, even when an adapter error is present; otherwise an
\* adapter error is surfaced and null returned; otherwise the empty-speech
\* error is set and null returned.
C15_ResolutionPriority ==
  [][\A c \in 1..Len(calls) :
       SettleDelayElapsed(c) =>
         LET transcript == calls[c].snap.transcript
             adapterError == calls[c].snap.error
         IN /\ calls'[c].promise = "resolved"
            /\ IF trim(transcript) # <<>>
               THEN /\ calls'[c].result = trim(transcript)
                    /\ error' = error
               ELSE IF adapterError # null
               THEN /\ calls'[c].result = nullResult
                    /\ error' = "Web Speech API error: " \o adapterError
               ELSE /\ calls'[c].result = nullResult
                    /\ error' = "No speech detected. Please try again."]_vars

\* a call that returned its transcript, and a later call that waits for the
\* settle delay holding a transcript and an adapter error
C15_Witness ==
  /\ isSupported
  /\ \E c, d \in 1..Len(calls) :
       /\ calls[c].signalled = "engine"
       /\ calls[c].stage = "done"
       /\ calls[c].promise = "resolved"
       /\ calls[c].result = <<"a">>
       /\ calls[d].stage = "settle"
       /\ trim(calls[d].snap.transcript) # <<>>
       /\ calls[d].snap.error # null

\* ----------------------------------------------------- C16: termination
\* every callback the platform owes is eventually delivered: the result of
\* getUserMedia, the engine's start and end events, the settle timer, the
\* recorder's stop event, the reader's loadend and the gateway's answer
Fairness ==
  /\ \A s \in 1..MaxStarts :
       WF_vars(GetUserMediaRejected(s)
                 \/ \E o \in RecorderStartOutcomes : GetUserMediaResolved(s, o))
  /\ \A e \in 1..MaxStarts : WF_vars(OnStart(e)) /\ WF_vars(OnEnd(e))
  /\ \A r \in 1..MaxStarts : WF_vars(\E o \in BlobOutcomes : OnStop(r, o))
  /\ \A c \in 1..MaxStops :
       /\ WF_vars(SettleDelayElapsed(c))
       /\ WF_vars(\E ok \in BOOLEAN : OnLoadEnd(c, ok))
       /\ WF_vars(\E resp \in GatewayResponses : GatewayResolved(c, resp))

FairSpec == Init /\ [][Next]_vars /\ Fairness

\* C16: every stopRecording call's promise eventually resolves (with a
\* string or null), given that the engine, timer, recorder, reader and
\* gateway callbacks each eventually fire; also for a call made while an
\* earlier device-path stop has not yet had its recorder stop callback.
C16_EveryStopResolves ==
  \A c \in 1..MaxStops :
    (Len(calls) >= c) ~> (Len(calls) >= c /\ calls[c].promise = "resolved")

\* -------------------------------------------------- C17: unguarded start
\* this step is a startRecording call that creates an engine, or the part of
\* one that creates and starts a recorder
EngineCreated == StartRecordingWebSpeech("ok")
RecorderCreated == \E s \in 1..Len(starts) : GetUserMediaResolved(s, "ok")

\* C17: startRecording is not guarded against an active session.  A call
\* made while a session is active is accepted (neither rejected nor queued)
\* and creates a second engine or recorder that replaces the stored handle;
\* the first instance stays active, never becomes the stored handle again,
\* and no stopRecording call or stop handler reaches it: a replaced recorder
\* that is recording keeps recording with its tracks unstopped, and a
\* stopRecording call leaves every replaced engine as it is.
C17_SecondStartReplacesHandle ==
  /\ [](Len(starts) < MaxStarts =>
          IF isSupported THEN ENABLED StartRecordingWebSpeech("ok")
          ELSE ENABLED StartRecordingDevice)
  /\ [][
         /\ (EngineCreated /\ ~NoSessionActive) =>
              /\ Len(engines') = Len(engines) + 1
              /\ recognition' = Len(engines')
              /\ starts'[Len(starts')] = "resolved"
              /\ \A e \in 1..Len(engines) :
                   EngineActive(e) => engines'[e].state = engines[e].state
         /\ (RecorderCreated /\ ~NoSessionActive) =>
              /\ Len(recorders') = Len(recorders) + 1
              /\ mediaRecorder' = Len(recorders')
              /\ \A r \in 1..Len(recorders) : recorders'[r] = recorders[r]
         /\ \A r \in 1..Len(recorders) :
              (r # mediaRecorder /\ recorders[r].state = "recording") =>
                /\ recorders'[r].state = "recording"
                /\ recorders'[r].trackStops = recorders[r].trackStops
                /\ recorders'[r].onstop = recorders[r].onstop
                /\ mediaRecorder' # r
         /\ \A e \in 1..Len(engines) :
              e # recognition =>
                /\ recognition' # e
                /\ StopCalled => engines'[e] = engines[e]]_vars

\* a stopRecording call has stopped the second recorder and resolved while
\* the first recorder is still recording with its track unstopped
C17_Witness ==
  /\ ~isSupported
  /\ Len(recorders) = 2
  /\ mediaRecorder = 2
  /\ recorders[1].state = "recording"
  /\ recorders[1].trackStops = 0
  /\ recorders[2].state = "inactive"
  /\ recorders[2].trackStops = AudioTracks
  /\ \E c \in 1..Len(calls) :
       calls[c].stopped = 2 /\ calls[c].promise = "resolved"

\* ------------------------------------------- C18: a new session clears error
\* this step is a startRecording call that begins a session: the adapter
\* accepts the start, or the device path starts waiting for the device
SessionBegins == StartRecordingWebSpeech("ok") \/ StartRecordingDevice

\* this step is a callback of a stopRecording call that belongs to an
\* earlier session than the latest startRecording: the settle timer of a
\* call (which cleared isRecording) firing after a later startRecording has
\* set isRecording again
LateCallback ==
  \E c \in 1..Len(calls) : SettleDelayElapsed(c) /\ isRecording

\* C18: starting a new session clears the error: right after startRecording
\* begins the observed error is null whatever an earlier session left, and
\* it does not become non-null again through a late callback of an earlier
\* session.
C18_NewSessionClearsError ==
  [][/\ SessionBegins => ObservedError' = null
     /\ (ObservedError = null /\ ObservedError' # null) => ~LateCallback]_vars

\* ------------------------------------------------ C19: reset on start
\* C19: on a supported platform every startListening resets transcript to
\* empty, error to null and confidence to 0 before the engine begins
\* listening, so that no value of a previous session is observable in the
\* new one.
C19_StartResetsAdapterState ==
  [][EngineCreated =>
       /\ webSpeech'.transcript = <<>>
       /\ webSpeech'.error = null
       /\ webSpeech'.confidence = 0]_vars

\* ------------------------------------------- C20: isListening is asynchronous
\* this step is a callback of some engine that ends its listening: a final
\* result, an error or the end event
FinalResult(e) == \E h \in Hypotheses : OnResult(e, h, TRUE)
ErrorOrEnd(e) == OnEnd(e) \/ \E code \in ErrorCodes : OnError(e, code)

\* this step is a startListening that fails in its try block
StartFailed == \E o \in EngineStartOutcomes \ {"ok"} : StartRecordingWebSpeech(o)

\* stopListening has been called on the current engine, which has not yet
\* answered
StopRequested == recognition # 0 /\ engines[recognition].state = "stopping"

\* C20 as stated: isListening never changes synchronously with a call: a
\* successful startListening leaves it as it is until the engine's start
\* callback fires (startRecording returning without waiting for it), and
\* stopListening leaves it unchanged until the engine's end or error
\* callback fires.
C20_UnchangedUntilEndOrError ==
  [][/\ EngineCreated =>
          /\ webSpeech'.isListening = webSpeech.isListening
          /\ starts'[Len(starts')] = "resolved"
          /\ engines'[recognition'].state = "starting"
     /\ (~webSpeech.isListening /\ webSpeech'.isListening) =>
          \E e \in 1..Len(engines) : OnStart(e)
     /\ StopRecordingWebSpeech => webSpeech'.isListening = webSpeech.isListening
     /\ (StopRequested /\ webSpeech.isListening /\ ~webSpeech'.isListening) =>
          \E e \in 1..Len(engines) : ErrorOrEnd(e)]_vars

\* C20 amended: neither a successful startListening nor stopListening
\* changes isListening; it becomes true only in an engine's start callback
\* and false only in an engine's final-result, error or end callback or in
\* the catch block of a failed startListening.
C20_ListeningChangesInCallbacks ==
  [][/\ EngineCreated =>
          /\ webSpeech'.isListening = webSpeech.isListening
          /\ starts'[Len(starts')] = "resolved"
          /\ engines'[recognition'].state = "starting"
     /\ (~webSpeech.isListening /\ webSpeech'.isListening) =>
          \E e \in 1..Len(engines) : OnStart(e)
     /\ StopRecordingWebSpeech => webSpeech'.isListening = webSpeech.isListening
     /\ (webSpeech.isListening /\ ~webSpeech'.isListening) =>
          \/ \E e \in 1..Len(engines) : ErrorOrEnd(e) \/ FinalResult(e)
          \/ StartFailed]_vars

\* stopRecording has called stopListening and waits for the settle delay;
\* the engine has answered with a final result, which cleared isListening,
\* and its end event has not fired yet
C20_Witness ==
  /\ isSupported
  /\ ~webSpeech.isListening
  /\ recognition # 0
  /\ engines[recognition].state = "closing"
  /\ engines[recognition].final # nullResult
  /\ \E c \in 1..Len(calls) :
       calls[c].stage = "settle" /\ calls[c].signalled = "engine"

\* ------------------------------------------ C21: events that end listening
\* C21: isListening is cleared by each of three engine events: a result
\* marked final, an engine-reported error (which also sets the recognition
\* error carrying the engine's code) and the engine's end, with or without a
\* final result before it; once cleared it becomes true again only in a
\* start callback.  (Stated from the outcome: a step that leaves isListening
\* true is none of the three events, a step that leaves another error is not
\* the error event.)
C21_EngineEventsClearListening ==
  [][/\ webSpeech'.isListening =>
          \A e \in 1..Len(engines) : ~(FinalResult(e) \/ ErrorOrEnd(e))
     /\ \A code \in ErrorCodes :
          webSpeech'.error # "Speech recognition error: " \o code =>
            \A e \in 1..Len(engines) : ~OnError(e, code)
     /\ (~webSpeech.isListening /\ webSpeech'.isListening) =>
          \E e \in 1..Len(engines) :
            OnStart(e) /\ engines[e].state = "starting"]_vars

\* both engines have started; the current one has delivered a final result,
\* the other has reported an error and ended; isListening is false
C21_Witness ==
  /\ isSupported
  /\ ~webSpeech.isListening
  /\ webSpeech.error = "Speech recognition error: no-speech"
  /\ Len(engines) = 2
  /\ recognition = 2
  /\ engines[1].state = "ended"
  /\ engines[2].state = "closing"
  /\ engines[2].final # nullResult

\* -------------------------------------------------- C22: last value wins
\* C22: after each interim or final recognition event the adapter's
\* transcript and confidence are those of the event's latest hypothesis
\* alone (an absent confidence reading as 0): what earlier events left is
\* overwritten, never concatenated or accumulated.  (Stated from the
\* outcome: a step that leaves another transcript or confidence than those
\* of hypothesis h is not a recognition event delivering h; the event is a
\* final one exactly when it changes the engine's state.)
C22_LastResultWins ==
  [][(starts' = starts /\ calls' = calls /\ recorders' = recorders) =>
       \A h \in Hypotheses :
         (\/ webSpeech'.transcript # h.transcript
          \/ webSpeech'.confidence # (IF h.confidence = undefined THEN 0
                                      ELSE h.confidence)) =>
           \A e \in 1..Len(engines) : ~OnResult(e, h, engines' # engines)]_vars

\* the session's engine delivered ' a ' with confidence 1 before
\* stopRecording was called and a whitespace-only final result after it:
\* the adapter holds the later one
C22_Witness ==
  /\ isSupported
  /\ Len(engines) = 1
  /\ engines[1].state = "closing"
  /\ webSpeech.transcript = <<" ">>
  /\ webSpeech.confidence = 1
  /\ \E c \in 1..Len(calls) :
       /\ calls[c].stage = "settle"
       /\ calls[c].snap.transcript = <<" ", "a", " ">>

\* ------------------------------------------------------ C23: the blob
\* the recorder whose stop event ran the onstop handler of call c
recorderOf(c) == CHOOSE r \in 1..Len(recorders) : recorders[r].onstop = c

\* the non-empty chunks recorder r has emitted, in arrival order
chunksOf(r) == [i \in 1..recorders[r].emitted |-> [rec |-> r, seq |-> i]]

\* C23: on the device path the blob assembled at stop consists of exactly
\* the non-empty chunks that session's recorder emitted since its
\* startRecording, in arrival order, with no chunk of an earlier or of a
\* concurrently started session.
C23_BlobIsSessionChunks ==
  \A c \in 1..Len(calls) :
    calls[c].stage \in {"reading", "gateway"} =>
      calls[c].blob = chunksOf(recorderOf(c))

\* -------------------------------------------- C24: who changes isRecording
\* this step is a callback of some engine: start, result, error or end
EngineCallback ==
  \E e \in 1..Len(engines) :
    \/ OnStart(e)
    \/ \E h \in Hypotheses, f \in BOOLEAN : OnResult(e, h, f)
    \/ ErrorOrEnd(e)

\* this step is the onstop handler stopRecording installed, run by the stop
\* event of a recorder
StopCallback ==
  \E r \in 1..Len(recorders) :
    recorders[r].onstop # 0 /\ \E o \in BlobOutcomes : OnStop(r, o)

\* C24: the orchestrator's isRecording is changed by three steps only: set
\* true by startRecording (the in-browser branch, or the device branch once
\* the recorder has started), cleared by the in-browser branch of
\* stopRecording and cleared by the recorder's stop callback.  No engine
\* callback and no other branch of stopRecording changes isRecording,
\* isProcessing or the orchestrator's error.
C24_IsRecordingWriters ==
  [][/\ (~isRecording /\ isRecording') =>
          \/ \E o \in EngineStartOutcomes : StartRecordingWebSpeech(o)
          \/ RecorderCreated
     /\ (isRecording /\ ~isRecording') =>
          StopRecordingWebSpeech \/ StopCallback
     /\ (<<isRecording, isProcessing, error>>' # <<isRecording, isProcessing, error>>) =>
          ~(\/ EngineCallback
            \/ StopRecordingNull
            \/ \E o \in RecorderStopOutcomes : StopRecordingDevice(o))]_vars

\* the engine has reported an error and a stopRecording call has returned
\* null on the branch without a recorder: isRecording is still true and the
\* orchestrator's error still null
C24_Witness ==
  /\ isSupported
  /\ isRecording
  /\ ~isProcessing
  /\ error = null
  /\ webSpeech.error = "Speech recognition error: no-speech"
  /\ \E c \in 1..Len(calls) :
       calls[c].signalled = "none" /\ calls[c].promise = "resolved"

====
